---- MODULE Spec2Model ----
(***************************************************************************)
(* Model of the signal/result matching engine of ImageAnalyzer             *)
(* (src/image_analyzer.py): _calculate_match_score and                     *)
(* match_signals_to_results.                                               *)
(*                                                                         *)
(* Python floats are modelled as exact rationals [n, d] in lowest terms.   *)
(* Python dict entries are modelled as tagged optionals: Absent (no key),  *)
(* None (key present, value None) and Val(x).                              *)
(***************************************************************************)
EXTENDS Integers, Sequences, FiniteSets, TLC

VARIABLES
    processed_data,  \* the argument of match_signals_to_results
    config_arg,      \* per invocation: the argument of ImageAnalyzer(config)
    config,          \* per invocation: self.config of the analyzer called
    runs,            \* the invocations of match_signals_to_results
    pc,              \* per invocation: "idle", "loop", "done"
    cursor,          \* per invocation: index of the next signal of the for loop
    used_results,    \* per invocation: the local set used_results
    matched_trades,  \* per invocation: the local list matched_trades
    returned,        \* per invocation: the returned list
    raised,          \* per invocation: TRUE when the except branch was taken
    signal_data,     \* first argument of a direct _calculate_match_score call
    result_data,     \* second argument of a direct _calculate_match_score call
    score_pc,        \* "idle", "call" or "done" for the direct call
    score_out,       \* the value returned by the direct call
    text_regions,    \* the argument of a detect_coin_name call
    coin_pc,         \* detect_coin_name: "idle", "call", "exact", "fuzzy", "done"
    region_index,    \* detect_coin_name: index of the region of the for loop
    coin_out,        \* the pair returned by detect_coin_name
    image_readable,  \* _detect_color_status: FALSE when the image is None
    green_pixels,    \* _detect_color_status: count of the green mask
    red_pixels,      \* _detect_color_status: count of the red mask
    color_pc,        \* "idle", "call" or "done" for _detect_color_status
    color_out        \* the status returned by _detect_color_status

vars == <<processed_data, config_arg, config, runs, pc, cursor, used_results,
          matched_trades, returned, raised,
          signal_data, result_data, score_pc, score_out,
          text_regions, coin_pc, region_index, coin_out,
          image_readable, green_pixels, red_pixels, color_pc, color_out>>

matcher_vars == <<processed_data, config_arg, config, runs, pc, cursor,
                  used_results, matched_trades, returned, raised>>

score_vars == <<signal_data, result_data, score_pc, score_out>>

detect_vars == <<text_regions, coin_pc, region_index, coin_out>>

color_vars == <<image_readable, green_pixels, red_pixels, color_pc, color_out>>

----------------------------------------------------------------------------
(* Bounds *)

MaxRecords == 3
MaxConfigRecords == 2
MaxPixels == 9
MaxRegions == 2

----------------------------------------------------------------------------
(* Exact rational arithmetic standing for float arithmetic *)

Abs(x) == IF x < 0 THEN -x ELSE x

RECURSIVE GCD(_, _)
GCD(a, b) == IF b = 0 THEN a ELSE GCD(b, a % b)

Rat(n, d) ==
    LET g == GCD(Abs(n), Abs(d))
        s == IF d < 0 THEN -1 ELSE 1
    IN [n |-> (s * n) \div g, d |-> (s * d) \div g]

LCM(a, b) == (a \div GCD(a, b)) * b

RAdd(x, y) ==
    LET l == LCM(x.d, y.d)
    IN Rat(x.n * (l \div x.d) + y.n * (l \div y.d), l)

RSub(x, y) == RAdd(x, [n |-> -y.n, d |-> y.d])

RMul(x, y) ==
    LET a == Rat(x.n, y.d)
        b == Rat(y.n, x.d)
    IN Rat(a.n * b.n, a.d * b.d)

RDiv(x, y) == RMul(x, Rat(y.d, y.n))

RLt(x, y) ==
    LET l == LCM(x.d, y.d)
    IN x.n * (l \div x.d) < y.n * (l \div y.d)

RLe(x, y) == ~RLt(y, x)

Zero == Rat(0, 1)
One == Rat(1, 1)

----------------------------------------------------------------------------
(* Optional dict entries *)

Absent == [k |-> "absent", v |-> 0]
None == [k |-> "none", v |-> 0]
Val(x) == [k |-> "val", v |-> x]
\* a timestamp string that datetime.fromisoformat rejects
BadTime == [k |-> "bad", v |-> 0]

\* dict.get(key): None when the key is absent
Get(e) == IF e.k = "absent" THEN None ELSE e

\* dict.get(key, default)
GetDefault(e, default) == IF e.k = "absent" THEN default ELSE e

\* truthiness of a numeric entry: None and 0 are falsy
Truthy(e) == e.k = "val" /\ e.v # 0

\* truthiness of a timestamp entry: None (and the empty string) is falsy
TimeTruthy(e) == e.k \in {"val", "bad"}

\* the status entry is a string; StatusAbsent stands for a missing key
StatusAbsent == "<absent>"

\* GetStatus without the default
GetStatusNoDefault(s, default) == s

\* dict.get('status', default)
GetStatus(s, default) == IF s = StatusAbsent THEN default ELSE s

----------------------------------------------------------------------------
(* difflib.SequenceMatcher(None, a, b).ratio() on strings shorter than 200   *)
(* characters (no junk heuristic). Strings are sequences of characters;     *)
(* a[lo..hi) is the half-open slice with 0-based bounds.                    *)

BlockMatches(a, b, i, j, k) == \A t \in 0..(k - 1) : a[i + t + 1] = b[j + t + 1]

\* the longest matching block of a[alo..ahi) and b[blo..bhi): the longest,
\* among those the one starting earliest in a, among those earliest in b
FindLongestMatch(a, alo, ahi, b, blo, bhi) ==
    LET Blocks == {blk \in (alo..(ahi - 1)) \X (blo..(bhi - 1)) \X (1..(ahi - alo)) :
                      /\ blk[1] + blk[3] <= ahi
                      /\ blk[2] + blk[3] <= bhi
                      /\ BlockMatches(a, b, blk[1], blk[2], blk[3])}
        Better(x, y) == \/ x[3] > y[3]
                        \/ x[3] = y[3] /\ x[1] < y[1]
                        \/ x[3] = y[3] /\ x[1] = y[1] /\ x[2] < y[2]
    IN IF Blocks = {} THEN <<alo, blo, 0>>
       ELSE CHOOSE x \in Blocks : \A y \in Blocks \ {x} : Better(x, y)

\* the total size of get_matching_blocks()
RECURSIVE MatchingSize(_, _, _, _, _, _)
MatchingSize(a, alo, ahi, b, blo, bhi) ==
    LET m == FindLongestMatch(a, alo, ahi, b, blo, bhi)
        i == m[1]
        j == m[2]
        k == m[3]
    IN IF k = 0 THEN 0
       ELSE k + (IF alo < i /\ blo < j
                 THEN MatchingSize(a, alo, i, b, blo, j) ELSE 0)
              + (IF i + k < ahi /\ j + k < bhi
                 THEN MatchingSize(a, i + k, ahi, b, j + k, bhi) ELSE 0)

SimilarityRatio(a, b) ==
    IF Len(a) + Len(b) = 0 THEN One
    ELSE Rat(2 * MatchingSize(a, 0, Len(a), b, 0, Len(b)), Len(a) + Len(b))

----------------------------------------------------------------------------
(* _calculate_match_score *)

CoinWeight == Rat(3, 5)
TimeWeight == Rat(1, 5)
PriceWeight == Rat(1, 5)
SimilarFactor == Rat(1, 2)
FullTimeSeconds == 3600
DaySeconds == 86400
PriceRatioMin == Rat(4, 5)

\* a coin string is truthy when it is not empty
HasCoin(d) == d.coin # <<>>

\* CoinFactor without the halving of the score of differing names
CoinFactorUnreduced(s, r) ==
    IF HasCoin(s) /\ HasCoin(r)
    THEN [max |-> CoinWeight,
          score |-> IF s.coin = r.coin THEN CoinWeight
                    ELSE RMul(CoinWeight, SimilarityRatio(s.coin, r.coin))]
    ELSE [max |-> Zero, score |-> Zero]

\* lines 444-451: [score, max_score] contribution of the coin names
CoinFactor(s, r) ==
    IF HasCoin(s) /\ HasCoin(r)
    THEN [max |-> CoinWeight,
          score |-> IF s.coin = r.coin THEN CoinWeight
                    ELSE RMul(RMul(CoinWeight, SimilarityRatio(s.coin, r.coin)),
                              SimilarFactor)]
    ELSE [max |-> Zero, score |-> Zero]

\* TimeScore with the full weight only below one hour
TimeScoreStrict(time_diff) ==
    IF time_diff < FullTimeSeconds THEN TimeWeight
    ELSE IF time_diff <= DaySeconds
    THEN RMul(TimeWeight, RSub(One, Rat(time_diff, DaySeconds)))
    ELSE Zero

\* TimeScore decaying without the cut at one day
TimeScoreNoCutoff(time_diff) ==
    IF time_diff <= FullTimeSeconds THEN TimeWeight
    ELSE RMul(TimeWeight, RSub(One, Rat(time_diff, DaySeconds)))

\* lines 464-467: what a time difference in seconds earns
TimeScore(time_diff) ==
    IF time_diff <= FullTimeSeconds THEN TimeWeight
    ELSE IF time_diff <= DaySeconds
    THEN RMul(TimeWeight, RSub(One, Rat(time_diff, DaySeconds)))
    ELSE Zero

\* TimeFactor applying as soon as one side has a timestamp
TimeFactorEitherSide(s, r) ==
    LET signal_time == Get(s.timestamp)
        result_time == Get(r.timestamp)
    IN IF TimeTruthy(signal_time) /\ TimeTruthy(result_time)
       THEN [max |-> TimeWeight,
             score |-> IF signal_time.k = "bad" \/ result_time.k = "bad"
                       THEN Zero
                       ELSE TimeScore(Abs(result_time.v - signal_time.v))]
       ELSE IF TimeTruthy(signal_time) \/ TimeTruthy(result_time)
       THEN [max |-> TimeWeight, score |-> Zero]
       ELSE [max |-> Zero, score |-> Zero]

\* lines 454-469: contribution of the timestamps
TimeFactor(s, r) ==
    LET signal_time == Get(s.timestamp)
        result_time == Get(r.timestamp)
    IN IF TimeTruthy(signal_time) /\ TimeTruthy(result_time)
       THEN [max |-> TimeWeight,
             score |-> IF signal_time.k = "bad" \/ result_time.k = "bad"
                       THEN Zero   \* fromisoformat raised, except: pass
                       ELSE TimeScore(Abs(result_time.v - signal_time.v))]
       ELSE [max |-> Zero, score |-> Zero]

Min(x, y) == IF x <= y THEN x ELSE y
Max(x, y) == IF x >= y THEN x ELSE y

\* ResultPrice without the fall back to the exit price
ResultPriceEntryOnly(r) == Get(r.entry_price)

\* line 473: result_data.get('entry_price') or result_data.get('exit_price')
ResultPrice(r) ==
    IF Truthy(Get(r.entry_price)) THEN Get(r.entry_price) ELSE Get(r.exit_price)

\* PriceRatio without min and max
PriceRatioUnordered(signal_price, result_price) == Rat(signal_price, result_price)

\* line 476
PriceRatio(signal_price, result_price) ==
    Rat(Min(signal_price, result_price), Max(signal_price, result_price))

\* PriceFactor earning from a ratio of 0.8 on
PriceFactorAtLeast(s, r) ==
    LET signal_price == Get(s.entry_price)
        result_price == ResultPrice(r)
    IN IF Truthy(signal_price) /\ Truthy(result_price)
       THEN LET price_ratio == PriceRatio(signal_price.v, result_price.v)
            IN [max |-> PriceWeight,
                score |-> IF RLe(PriceRatioMin, price_ratio)
                          THEN RMul(PriceWeight, price_ratio) ELSE Zero]
       ELSE [max |-> Zero, score |-> Zero]

\* lines 472-478: contribution of the prices
PriceFactor(s, r) ==
    LET signal_price == Get(s.entry_price)
        result_price == ResultPrice(r)
    IN IF Truthy(signal_price) /\ Truthy(result_price)
       THEN LET price_ratio == PriceRatio(signal_price.v, result_price.v)
            IN [max |-> PriceWeight,
                score |-> IF RLt(PriceRatioMin, price_ratio)
                          THEN RMul(PriceWeight, price_ratio) ELSE Zero]
       ELSE [max |-> Zero, score |-> Zero]

\* CalculateMatchScore returning 1 when no factor applies
CalculateMatchScoreDefaultOne(s, r) ==
    LET c == CoinFactor(s, r)
        t == TimeFactor(s, r)
        p == PriceFactor(s, r)
        score == RAdd(RAdd(c.score, t.score), p.score)
        max_score == RAdd(RAdd(c.max, t.max), p.max)
    IN IF RLt(Zero, max_score) THEN RDiv(score, max_score) ELSE One

\* lines 438-484
CalculateMatchScore(s, r) ==
    LET c == CoinFactor(s, r)
        t == TimeFactor(s, r)
        p == PriceFactor(s, r)
        score == RAdd(RAdd(c.score, t.score), p.score)
        max_score == RAdd(RAdd(c.max, t.max), p.max)
    IN IF RLt(Zero, max_score) THEN RDiv(score, max_score) ELSE Zero

----------------------------------------------------------------------------
(* match_signals_to_results *)

\* path None
NoPath == 0

\* the dict {} (also standing for data None): every key absent
EmptyData == [coin |-> <<>>, entry_price |-> Absent, exit_price |-> Absent,
              roi |-> Absent, status |-> StatusAbsent, timestamp |-> Absent]

\* not signal_data / not result_data
NoData(d) == d = EmptyData

\* Signals in the reverse of the input order
SignalsReversed(pd) ==
    LET signals == SelectSeq(pd, LAMBDA d : d.type = "signal")
    IN [i \in 1..Len(signals) |-> signals[Len(signals) + 1 - i]]

\* lines 346-347
Signals(pd) == SelectSeq(pd, LAMBDA d : d.type = "signal")
Results(pd) == SelectSeq(pd, LAMBDA d : d.type = "result")

\* line 356: the signals the loop does not skip
SignalUsable(sd) == ~NoData(sd) /\ HasCoin(sd)

\* ResultScanned without the check of used_results
ResultScannedAgain(i, rd, used) == ~NoData(rd)

\* ResultScanned with one used_results set shared by all invocations
ResultScannedShared(i, rd, used) ==
    i \notin UNION {used_results[q] : q \in DOMAIN used_results} /\ ~NoData(rd)

\* lines 363-368: the results the inner loop scores
ResultScanned(i, rd, used) == i \notin used /\ ~NoData(rd)

\* Qualifies taking the first result that reaches the threshold
QualifiesFirst(score, best_score, threshold) ==
    best_score = Zero /\ RLt(Zero, score) /\ RLe(threshold, score)

\* Qualifies with a score that has to exceed the threshold
QualifiesAbove(score, best_score, threshold) ==
    RLt(best_score, score) /\ RLt(threshold, score)

\* Qualifies with an equal score replacing the running best
QualifiesOrEqual(score, best_score, threshold) ==
    RLe(best_score, score) /\ RLe(threshold, score)

\* line 373
Qualifies(score, best_score, threshold) ==
    RLt(best_score, score) /\ RLe(threshold, score)

\* the dict cfg has the key 'auto_match_threshold'
HasThreshold(cfg) == "auto_match_threshold" \in DOMAIN cfg

\* line 373: score > best_score holds and self.config['auto_match_threshold']
\* is then read from a dict without that key
ThresholdKeyError(score, best_score, cfg) ==
    RLt(best_score, score) /\ ~HasThreshold(cfg)

\* lines 359-375: the inner loop from result i on; best.match = 0 is None,
\* best.raised tells that line 373 raised KeyError
RECURSIVE ScanResults(_, _, _, _, _, _)
ScanResults(sd, results, used, cfg, i, best) ==
    IF i > Len(results) THEN best
    ELSE IF ~ResultScanned(i, results[i].data, used)
    THEN ScanResults(sd, results, used, cfg, i + 1, best)
    ELSE LET score == CalculateMatchScore(sd, results[i].data)
         IN IF ThresholdKeyError(score, best.score, cfg)
            THEN [best EXCEPT !.raised = TRUE]
            ELSE IF HasThreshold(cfg)
                    /\ Qualifies(score, best.score, cfg.auto_match_threshold)
            THEN ScanResults(sd, results, used, cfg, i + 1,
                             [match |-> i, score |-> score, raised |-> FALSE])
            ELSE ScanResults(sd, results, used, cfg, i + 1, best)

BestMatch(sd, results, used, cfg) ==
    ScanResults(sd, results, used, cfg, 1,
                [match |-> 0, score |-> Zero, raised |-> FALSE])

\* lines 381-391
MatchedTrade(signal, result, best_score) ==
    [coin |-> signal.data.coin,
     entry_price |-> Get(signal.data.entry_price),
     exit_price |-> Get(result.data.exit_price),
     roi |-> GetDefault(result.data.roi, Get(signal.data.roi)),
     status |-> GetStatus(result.data.status, "unknown"),
     signal_image |-> signal.path,
     result_image |-> result.path,
     match_confidence |-> best_score,
     timestamp |-> Get(signal.data.timestamp)]

\* lines 399-408
SignalOnlyTrade(signal) ==
    [coin |-> signal.data.coin,
     entry_price |-> Get(signal.data.entry_price),
     exit_price |-> Absent,
     roi |-> Get(signal.data.roi),
     status |-> GetStatus(signal.data.status, "pending"),
     signal_image |-> signal.path,
     result_image |-> NoPath,
     match_confidence |-> Zero,
     timestamp |-> Get(signal.data.timestamp)]

\* lines 416-425
ResultOnlyTrade(result) ==
    [coin |-> result.data.coin,
     entry_price |-> Absent,
     exit_price |-> Get(result.data.exit_price),
     roi |-> Get(result.data.roi),
     status |-> GetStatus(result.data.status, "unknown"),
     signal_image |-> NoPath,
     result_image |-> result.path,
     match_confidence |-> Zero,
     timestamp |-> Get(result.data.timestamp)]

\* ResultLeftOver without the check of the coin
ResultLeftOverAny(i, rd, used) == i \notin used /\ ~NoData(rd)

\* lines 413-415: the results the second loop emits
ResultLeftOver(i, rd, used) == i \notin used /\ ~NoData(rd) /\ HasCoin(rd)

\* lines 412-426, from result i on
RECURSIVE LeftOverTrades(_, _, _)
LeftOverTrades(results, used, i) ==
    IF i > Len(results) THEN <<>>
    ELSE (IF ResultLeftOver(i, results[i].data, used)
          THEN <<ResultOnlyTrade(results[i])>> ELSE <<>>)
         \o LeftOverTrades(results, used, i + 1)

\* line 429: the sort key x.get('roi', 0)
SortKey(trade) == GetDefault(trade.roi, Val(0))

\* list.sort compares the keys of a list of two or more elements, and
\* comparing None with None or with a number raises TypeError
SortRaises(trades) ==
    Len(trades) >= 2 /\ \E i \in 1..Len(trades) : SortKey(trades[i]).k # "val"

\* x goes after the elements whose key is not smaller (stable, reverse=True)
RECURSIVE InsertDesc(_, _)
InsertDesc(sorted, x) ==
    IF sorted = <<>> THEN <<x>>
    ELSE IF SortKey(Head(sorted)).v >= SortKey(x).v
    THEN <<Head(sorted)>> \o InsertDesc(Tail(sorted), x)
    ELSE <<x>> \o sorted

RECURSIVE SortDesc(_, _)
SortDesc(trades, n) ==
    IF n = 0 THEN <<>> ELSE InsertDesc(SortDesc(trades, n - 1), trades[n])

\* line 429
SortByRoi(trades) == SortDesc(trades, Len(trades))

----------------------------------------------------------------------------
(* Inputs *)

EPIC == <<"E", "P", "I", "C">>
BTC == <<"B", "T", "C">>
BCH == <<"B", "C", "H">>
ETH == <<"E", "T", "H">>

Data(coin, entry, exit, roi, status, ts) ==
    [coin |-> coin, entry_price |-> entry, exit_price |-> exit,
     roi |-> roi, status |-> status, timestamp |-> ts]

\* Observations of signal images. Prices are in units of 1e-6, timestamps in
\* seconds after T0.
SignalObservations ==
    { Data(EPIC, Val(123), Absent, Absent, StatusAbsent, Val(0)),
      Data(BTC, Absent, Absent, None, StatusAbsent, Val(0)),
      Data(ETH, Absent, Absent, Val(3), "neutral", None),
      Data(<<>>, Absent, Absent, None, "win", Val(0)) }

\* Observations of result images
ResultObservations ==
    { Data(EPIC, Absent, Val(6594), Val(5261), "win", Val(600)),
      Data(ETH, Absent, Absent, Val(10), "win", None),
      Data(ETH, Absent, Absent, Absent, "loss", None),
      Data(ETH, Absent, Absent, None, "unknown", None),
      Data(BCH, Absent, Absent, Val(3), StatusAbsent, Val(90000)),
      Data(<<>>, Absent, Absent, Val(2), "win", Val(600)),
      EmptyData }

Records ==
    {[type |-> "signal", data |-> d] : d \in SignalObservations}
    \cup {[type |-> "result", data |-> d] : d \in ResultObservations}

\* lines 364-368 of src/main.py: one entry per analysed image, in order
ProcessedData(recs) ==
    [i \in 1..Len(recs) |->
        [path |-> i, type |-> recs[i].type, data |-> recs[i].data]]

Inputs ==
    {ProcessedData(recs) :
        recs \in UNION {[1..n -> Records] : n \in 0..MaxRecords}}

\* lines 62-77: the keys of _get_default_config that are numbers
DefaultConfig == [ocr_confidence |-> Rat(7, 10), auto_match_threshold |-> Rat(4, 5)]

\* ImageAnalyzer() and ImageAnalyzer({}): no config, or an empty dict
NoConfig == <<>>

\* line 45: self.config = config or self._get_default_config()
ImageAnalyzerInit(arg) == IF DOMAIN arg = {} THEN DefaultConfig ELSE arg

Runs == {1, 2}

\* arguments of the direct calls of _calculate_match_score
ScoreCoins == {<<>>, EPIC, BTC, BCH}

ScoreSignals ==
    {Data(c, e, Absent, Absent, StatusAbsent, t) :
        c \in ScoreCoins,
        e \in {None, Val(80), Val(100), Val(123)},
        t \in {None, BadTime, Val(0), Val(4000)}}

ScoreResults ==
    {Data(c, e, x, Absent, StatusAbsent, t) :
        c \in ScoreCoins,
        e \in {Absent, Val(100)},
        x \in {Absent, Val(81), Val(6594)},
        t \in {None, BadTime, Val(600), Val(3600), Val(3601),
               Val(45000), Val(86400), Val(86401)}}

\* no call of detect_coin_name or _detect_color_status is under way
NoDetection ==
    /\ text_regions = <<>>
    /\ coin_pc = "idle"
    /\ region_index = 0
    /\ coin_out = [coin |-> <<>>, confidence |-> Zero]
    /\ image_readable = TRUE
    /\ green_pixels = 0
    /\ red_pixels = 0
    /\ color_pc = "idle"
    /\ color_out = ""

----------------------------------------------------------------------------
(* The matcher: two invocations on the same input *)

Init ==
    /\ processed_data \in Inputs
    /\ config_arg = [r \in Runs |-> NoConfig]   \* src/main.py line 31
    /\ config = [r \in Runs |-> ImageAnalyzerInit(config_arg[r])]
    /\ runs = Runs
    /\ pc = [r \in Runs |-> "idle"]
    /\ cursor = [r \in Runs |-> 0]
    /\ used_results = [r \in Runs |-> {}]
    /\ matched_trades = [r \in Runs |-> <<>>]
    /\ returned = [r \in Runs |-> <<>>]
    /\ raised = [r \in Runs |-> FALSE]
    /\ signal_data = EmptyData
    /\ result_data = EmptyData
    /\ score_pc = "idle"
    /\ score_out = Zero
    /\ NoDetection

\* Call dropping the entries without data from the list it was given
CallDroppingEmpty(r) ==
    /\ r \in runs
    /\ pc[r] = "idle"
    /\ pc' = [pc EXCEPT ![r] = "loop"]
    /\ cursor' = [cursor EXCEPT ![r] = 1]
    /\ used_results' = [used_results EXCEPT ![r] = {}]
    /\ matched_trades' = [matched_trades EXCEPT ![r] = <<>>]
    /\ processed_data' = SelectSeq(processed_data, LAMBDA d : ~NoData(d.data))
    /\ UNCHANGED <<config_arg, config, runs, returned, raised,
                   score_vars, detect_vars, color_vars>>

\* lines 342-352: entry of match_signals_to_results
Call(r) ==
    /\ r \in runs
    /\ pc[r] = "idle"
    /\ pc' = [pc EXCEPT ![r] = "loop"]
    /\ cursor' = [cursor EXCEPT ![r] = 1]
    /\ used_results' = [used_results EXCEPT ![r] = {}]
    /\ matched_trades' = [matched_trades EXCEPT ![r] = <<>>]
    /\ UNCHANGED <<processed_data, config_arg, config, runs, returned, raised,
                 score_vars, detect_vars, color_vars>>

\* lines 354-409: one iteration of the loop over the signals
ProcessSignal(r) ==
    /\ r \in runs
    /\ pc[r] = "loop"
    /\ cursor[r] <= Len(Signals(processed_data))
    /\ LET signal == Signals(processed_data)[cursor[r]]
           results == Results(processed_data)
           best == BestMatch(signal.data, results, used_results[r], config[r])
       IN IF ~SignalUsable(signal.data)
          THEN UNCHANGED <<matched_trades, used_results, pc, returned, raised>>
          ELSE IF best.raised
          THEN \* lines 434-436: the except branch returns []
               /\ returned' = [returned EXCEPT ![r] = <<>>]
               /\ raised' = [raised EXCEPT ![r] = TRUE]
               /\ pc' = [pc EXCEPT ![r] = "done"]
               /\ UNCHANGED <<matched_trades, used_results>>
          ELSE IF best.match # 0
          THEN /\ matched_trades' =
                    [matched_trades EXCEPT ![r] =
                        Append(@, MatchedTrade(signal, results[best.match],
                                               best.score))]
               /\ used_results' = [used_results EXCEPT ![r] = @ \cup {best.match}]
               /\ UNCHANGED <<pc, returned, raised>>
          ELSE /\ matched_trades' =
                    [matched_trades EXCEPT ![r] = Append(@, SignalOnlyTrade(signal))]
               /\ UNCHANGED <<used_results, pc, returned, raised>>
    /\ cursor' = [cursor EXCEPT ![r] = @ + 1]
    /\ UNCHANGED <<processed_data, config_arg, config, runs, score_vars,
                   detect_vars, color_vars>>

\* lines 411-436: the loop over the results, the sort and the return; the
\* except branch returns [] when the sort raises
Finish(r) ==
    /\ r \in runs
    /\ pc[r] = "loop"
    /\ cursor[r] > Len(Signals(processed_data))
    /\ LET trades == matched_trades[r]
                     \o LeftOverTrades(Results(processed_data), used_results[r], 1)
       IN /\ matched_trades' = [matched_trades EXCEPT ![r] = trades]
          /\ IF SortRaises(trades)
             THEN /\ returned' = [returned EXCEPT ![r] = <<>>]
                  /\ raised' = [raised EXCEPT ![r] = TRUE]
             ELSE /\ returned' = [returned EXCEPT ![r] = SortByRoi(trades)]
                  /\ UNCHANGED raised
    /\ pc' = [pc EXCEPT ![r] = "done"]
    /\ UNCHANGED <<processed_data, config_arg, config, runs, cursor, used_results,
                 score_vars, detect_vars, color_vars>>

Next == \E r \in Runs : Call(r) \/ ProcessSignal(r) \/ Finish(r)

Spec == Init /\ [][Next]_vars

----------------------------------------------------------------------------
(* One signal and one result: _calculate_match_score called on the pair     *)
(* directly, and match_signals_to_results called on the two records         *)

ScoreInit ==
    /\ signal_data \in ScoreSignals
    /\ result_data \in ScoreResults
    /\ processed_data = ProcessedData(<<[type |-> "signal", data |-> signal_data],
                                        [type |-> "result", data |-> result_data]>>)
    /\ config_arg = [r \in Runs |-> NoConfig]
    /\ config = [r \in Runs |-> ImageAnalyzerInit(config_arg[r])]
    /\ runs = {1}
    /\ pc = [r \in Runs |-> "idle"]
    /\ cursor = [r \in Runs |-> 0]
    /\ used_results = [r \in Runs |-> {}]
    /\ matched_trades = [r \in Runs |-> <<>>]
    /\ returned = [r \in Runs |-> <<>>]
    /\ raised = [r \in Runs |-> FALSE]
    /\ score_pc = "call"
    /\ score_out = Zero
    /\ NoDetection

\* lines 438-484
Score ==
    /\ score_pc = "call"
    /\ score_out' = CalculateMatchScore(signal_data, result_data)
    /\ score_pc' = "done"
    /\ UNCHANGED <<signal_data, result_data, matcher_vars, detect_vars, color_vars>>

ScoreNext == Score \/ Call(1) \/ ProcessSignal(1) \/ Finish(1)

ScoreSpec == ScoreInit /\ [][ScoreNext]_vars

----------------------------------------------------------------------------
(* Two analyzers built with any two configurations, each called once on     *)
(* the same input                                                           *)

SOL == <<"S", "O", "L">>

ConfigRecords ==
    { [type |-> "signal",
       data |-> Data(EPIC, Val(123), Absent, Absent, StatusAbsent, Val(0))],
      [type |-> "signal", data |-> Data(BTC, Absent, Absent, None, StatusAbsent, Val(0))],
      [type |-> "signal", data |-> Data(ETH, Absent, Absent, Val(3), "neutral", None)],
      [type |-> "result",
       data |-> Data(EPIC, Absent, Val(6594), Val(5261), "win", Val(600))],
      [type |-> "result", data |-> Data(ETH, Absent, Absent, Val(10), "win", None)],
      [type |-> "result",
       data |-> Data(BCH, Absent, Absent, Val(3), StatusAbsent, Val(90000))],
      [type |-> "result", data |-> Data(SOL, Absent, Absent, Val(1), "loss", None)] }

ConfigInputs ==
    {ProcessedData(recs) :
        recs \in UNION {[1..n -> ConfigRecords] : n \in 0..MaxConfigRecords}}

\* the arguments of ImageAnalyzer(config): none, dicts with a threshold of
\* 0.8, 1.0, 0.0 or -0.5, and a dict without the key 'auto_match_threshold'
ConfigArgs ==
    { NoConfig,
      [ocr_confidence |-> Rat(1, 2), auto_match_threshold |-> Rat(4, 5)],
      [auto_match_threshold |-> Rat(4, 5)],
      [auto_match_threshold |-> One],
      [auto_match_threshold |-> Zero],
      [auto_match_threshold |-> Rat(-1, 2)],
      [ocr_confidence |-> Rat(1, 2)] }

ConfigInit ==
    /\ processed_data \in ConfigInputs
    /\ config_arg \in [Runs -> ConfigArgs]
    /\ config = [r \in Runs |-> ImageAnalyzerInit(config_arg[r])]
    /\ runs = Runs
    /\ pc = [r \in Runs |-> "idle"]
    /\ cursor = [r \in Runs |-> 0]
    /\ used_results = [r \in Runs |-> {}]
    /\ matched_trades = [r \in Runs |-> <<>>]
    /\ returned = [r \in Runs |-> <<>>]
    /\ raised = [r \in Runs |-> FALSE]
    /\ signal_data = EmptyData
    /\ result_data = EmptyData
    /\ score_pc = "idle"
    /\ score_out = Zero
    /\ NoDetection

ConfigSpec == ConfigInit /\ [][Next]_vars

----------------------------------------------------------------------------
(* The matcher on signals that compete for the same result: two signals of *)
(* one coin, the second without a price, so that it scores higher against   *)
(* the result of that coin than the first                                   *)

MaxPrefixRecords == 3

PrefixRecords ==
    { [type |-> "signal",
       data |-> Data(EPIC, Val(123), Absent, Absent, StatusAbsent, Val(0))],
      [type |-> "signal",
       data |-> Data(EPIC, Absent, Absent, Val(7), StatusAbsent, Val(0))],
      [type |-> "signal", data |-> Data(BTC, Absent, Absent, Val(1), "neutral", None)],
      [type |-> "result",
       data |-> Data(EPIC, Absent, Val(6594), Val(5261), "win", Val(600))],
      [type |-> "result", data |-> Data(<<>>, Absent, Absent, Val(2), "win", Val(600))] }

PrefixInputs ==
    {ProcessedData(recs) :
        recs \in UNION {[1..n -> PrefixRecords] : n \in 0..MaxPrefixRecords}}

PrefixInit ==
    /\ processed_data \in PrefixInputs
    /\ config_arg = [r \in Runs |-> NoConfig]
    /\ config = [r \in Runs |-> ImageAnalyzerInit(config_arg[r])]
    /\ runs = Runs
    /\ pc = [r \in Runs |-> "idle"]
    /\ cursor = [r \in Runs |-> 0]
    /\ used_results = [r \in Runs |-> {}]
    /\ matched_trades = [r \in Runs |-> <<>>]
    /\ returned = [r \in Runs |-> <<>>]
    /\ raised = [r \in Runs |-> FALSE]
    /\ signal_data = EmptyData
    /\ result_data = EmptyData
    /\ score_pc = "idle"
    /\ score_out = Zero
    /\ NoDetection

PrefixSpec == PrefixInit /\ [][Next]_vars

----------------------------------------------------------------------------
(* detect_coin_name on the text regions of one image. A region is one word  *)
(* of letters, as pytesseract.image_to_data returns them, with the OCR      *)
(* confidence divided by 100.                                               *)

\* lines 81-86: default_coins, in list order
KnownCoins ==
    <<BTC, ETH, <<"B", "N", "B">>, <<"A", "D", "A">>, <<"D", "O", "T">>,
      <<"X", "R", "P">>, <<"L", "I", "N", "K">>, <<"L", "T", "C">>, BCH,
      <<"U", "N", "I">>, <<"T", "H", "E", "T", "A">>, <<"X", "L", "M">>,
      <<"V", "E", "T">>, <<"F", "I", "L">>, <<"T", "R", "X">>,
      <<"E", "O", "S">>, <<"A", "T", "O", "M">>, <<"N", "E", "O">>,
      <<"A", "V", "A", "X">>, <<"L", "U", "N", "A">>, SOL,
      <<"M", "A", "T", "I", "C">>, <<"A", "L", "G", "O">>,
      <<"I", "C", "P">>, <<"E", "G", "L", "D">>, <<"R", "U", "N", "E">>,
      EPIC, <<"F", "L", "O", "K", "I">>, <<"H", "B", "A", "R">>,
      <<"C", "O", "O", "K">>, <<"T", "A", "O">>, <<"Z", "O", "R", "A">>,
      <<"D", "O", "G", "E">>, <<"S", "H", "I", "B">>>>

\* str.upper on letters
UpperOf ==
    "a" :> "A" @@ "b" :> "B" @@ "c" :> "C" @@ "d" :> "D" @@
    "e" :> "E" @@ "f" :> "F" @@ "g" :> "G" @@ "h" :> "H" @@
    "i" :> "I" @@ "j" :> "J" @@ "k" :> "K" @@ "l" :> "L" @@
    "m" :> "M" @@ "n" :> "N" @@ "o" :> "O" @@ "p" :> "P" @@
    "q" :> "Q" @@ "r" :> "R" @@ "s" :> "S" @@ "t" :> "T" @@
    "u" :> "U" @@ "v" :> "V" @@ "w" :> "W" @@ "x" :> "X" @@
    "y" :> "Y" @@ "z" :> "Z"

Upper(text) ==
    [i \in DOMAIN text |->
        IF text[i] \in DOMAIN UpperOf THEN UpperOf[text[i]] ELSE text[i]]

\* line 173: coin in text
Contains(coin, text) ==
    \E i \in 1..(Len(text) - Len(coin) + 1) :
        SubSeq(text, i, i + Len(coin) - 1) = coin

UpperLetters == {UpperOf[c] : c \in DOMAIN UpperOf}

\* line 180: re.findall(r'\b[A-Z]{2,8}\b', text) on a word of letters
CoinPatternMatches(text) ==
    IF Len(text) >= 2 /\ Len(text) <= 8
       /\ \A i \in DOMAIN text : text[i] \in UpperLetters
    THEN <<text>> ELSE <<>>

FuzzyMin == Rat(4, 5)

\* Higher with an equal confidence replacing the best one
HigherOrEqual(confidence, best_confidence) == RLe(best_confidence, confidence)

\* lines 175 and 188: confidence > best_confidence
Higher(confidence, best_confidence) == RLt(best_confidence, confidence)

\* lines 172-177: the registry from index i on, exact containment
RECURSIVE ExactHits(_, _, _, _)
ExactHits(text, region_confidence, i, best) ==
    IF i > Len(KnownCoins) THEN best
    ELSE IF Contains(KnownCoins[i], text)
            /\ Higher(region_confidence, best.confidence)
    THEN ExactHits(text, region_confidence, i + 1,
                   [coin |-> KnownCoins[i], confidence |-> region_confidence])
    ELSE ExactHits(text, region_confidence, i + 1, best)

\* FuzzyAccepted accepting a similarity of 0.8 as well
FuzzyAcceptedAtLeast(similarity) == RLe(FuzzyMin, similarity)

\* line 186: similarity > 0.8
FuzzyAccepted(similarity) == RLt(FuzzyMin, similarity)

\* lines 184-190: the registry from index i on, similarity to one match
RECURSIVE FuzzyHits(_, _, _, _)
FuzzyHits(match, region_confidence, i, best) ==
    IF i > Len(KnownCoins) THEN best
    ELSE LET similarity == SimilarityRatio(match, KnownCoins[i])
             confidence == RMul(region_confidence, similarity)
         IN IF FuzzyAccepted(similarity) /\ Higher(confidence, best.confidence)
            THEN FuzzyHits(match, region_confidence, i + 1,
                           [coin |-> KnownCoins[i], confidence |-> confidence])
            ELSE FuzzyHits(match, region_confidence, i + 1, best)

\* lines 180-190: the matches of the pattern from index m on
RECURSIVE FuzzyMatches(_, _, _, _)
FuzzyMatches(matches, region_confidence, m, best) ==
    IF m > Len(matches) THEN best
    ELSE FuzzyMatches(matches, region_confidence, m + 1,
                      FuzzyHits(matches[m], region_confidence, 1, best))

\* the words read in an image: a registry symbol, one in lower case, words at
\* similarity 0.8 (ET), above it (EPI) and below it (EPIK), and a word
\* holding two symbols
Words ==
    { BTC, <<"e", "t", "h">>, <<"E", "T">>, <<"E", "P", "I">>,
      <<"E", "P", "I", "K">>, <<"E", "T", "H", "B", "T", "C">> }

\* line 145 and 150: confidences above ocr_confidence, in hundredths
Confidences == {Rat(72, 100), Rat(84, 100)}

Regions == {[text |-> w, confidence |-> c] : w \in Words, c \in Confidences}

RegionInputs == UNION {[1..n -> Regions] : n \in 0..MaxRegions}

CoinInit ==
    /\ processed_data = <<>>
    /\ config_arg = [r \in Runs |-> NoConfig]
    /\ config = [r \in Runs |-> ImageAnalyzerInit(config_arg[r])]
    /\ runs = {}
    /\ pc = [r \in Runs |-> "idle"]
    /\ cursor = [r \in Runs |-> 0]
    /\ used_results = [r \in Runs |-> {}]
    /\ matched_trades = [r \in Runs |-> <<>>]
    /\ returned = [r \in Runs |-> <<>>]
    /\ raised = [r \in Runs |-> FALSE]
    /\ signal_data = EmptyData
    /\ result_data = EmptyData
    /\ score_pc = "idle"
    /\ score_out = Zero
    /\ text_regions \in RegionInputs
    /\ coin_pc = "call"
    /\ region_index = 0
    /\ coin_out = [coin |-> <<>>, confidence |-> Zero]
    /\ image_readable = TRUE
    /\ green_pixels = 0
    /\ red_pixels = 0
    /\ color_pc = "idle"
    /\ color_out = ""

\* lines 164-169: entry of detect_coin_name, and line 192 when there is no
\* region
DetectCoinName ==
    /\ coin_pc = "call"
    /\ coin_out' = [coin |-> <<>>, confidence |-> Zero]
    /\ region_index' = 1
    /\ coin_pc' = IF text_regions = <<>> THEN "done" ELSE "exact"
    /\ UNCHANGED <<text_regions, matcher_vars, score_vars, color_vars>>

\* lines 170-177: the exact hits of the current region
ExactMatching ==
    /\ coin_pc = "exact"
    /\ LET region == text_regions[region_index]
       IN coin_out' = ExactHits(Upper(region.text), region.confidence, 1, coin_out)
    /\ coin_pc' = "fuzzy"
    /\ UNCHANGED <<text_regions, region_index, matcher_vars, score_vars,
                   color_vars>>

\* lines 180-192: the fuzzy hits of the current region, then the next region
\* or the return
FuzzyMatching ==
    /\ coin_pc = "fuzzy"
    /\ LET region == text_regions[region_index]
       IN coin_out' = FuzzyMatches(CoinPatternMatches(Upper(region.text)),
                                   region.confidence, 1, coin_out)
    /\ region_index' = region_index + 1
    /\ coin_pc' = IF region_index = Len(text_regions) THEN "done" ELSE "exact"
    /\ UNCHANGED <<text_regions, matcher_vars, score_vars, color_vars>>

CoinNext == DetectCoinName \/ ExactMatching \/ FuzzyMatching

CoinSpec == CoinInit /\ [][CoinNext]_vars

----------------------------------------------------------------------------
(* _detect_color_status on an image with given counts of green and red      *)
(* pixels                                                                   *)

\* ColorStatus deciding by the plain majority
ColorStatusMajority(green, red) ==
    IF green > red THEN "win"
    ELSE IF red > green THEN "loss"
    ELSE "neutral"

\* lines 267-272: green > red * 1.5 and red > green * 1.5 on integer counts
ColorStatus(green, red) ==
    IF 2 * green > 3 * red THEN "win"
    ELSE IF 2 * red > 3 * green THEN "loss"
    ELSE "neutral"

ColorInit ==
    /\ processed_data = <<>>
    /\ config_arg = [r \in Runs |-> NoConfig]
    /\ config = [r \in Runs |-> ImageAnalyzerInit(config_arg[r])]
    /\ runs = {}
    /\ pc = [r \in Runs |-> "idle"]
    /\ cursor = [r \in Runs |-> 0]
    /\ used_results = [r \in Runs |-> {}]
    /\ matched_trades = [r \in Runs |-> <<>>]
    /\ returned = [r \in Runs |-> <<>>]
    /\ raised = [r \in Runs |-> FALSE]
    /\ signal_data = EmptyData
    /\ result_data = EmptyData
    /\ score_pc = "idle"
    /\ score_out = Zero
    /\ text_regions = <<>>
    /\ coin_pc = "idle"
    /\ region_index = 0
    /\ coin_out = [coin |-> <<>>, confidence |-> Zero]
    /\ image_readable \in BOOLEAN
    /\ green_pixels \in 0..MaxPixels
    /\ red_pixels \in 0..MaxPixels
    /\ color_pc = "call"
    /\ color_out = ""

\* lines 247-276; cv2.cvtColor raises on an image that is None and the
\* except branch returns "unknown"
DetectColorStatus ==
    /\ color_pc = "call"
    /\ color_out' = IF image_readable
                    THEN ColorStatus(green_pixels, red_pixels)
                    ELSE "unknown"
    /\ color_pc' = "done"
    /\ UNCHANGED <<image_readable, green_pixels, red_pixels,
                   matcher_vars, score_vars, detect_vars>>

ColorSpec == ColorInit /\ [][DetectColorStatus]_vars

----------------------------------------------------------------------------
(* Properties *)

Done(r) == pc[r] = "done"

Range(seq) == {seq[i] : i \in DOMAIN seq}

Threshold(r) == config[r].auto_match_threshold

IsSignalAt(p) == p \in DOMAIN processed_data /\ processed_data[p].type = "signal"
IsResultAt(p) == p \in DOMAIN processed_data /\ processed_data[p].type = "result"

IsMatched(t) == t.signal_image # NoPath /\ t.result_image # NoPath

\* the position in the result list of the result with path p
ResultIndex(p) == Len(Results(SubSeq(processed_data, 1, p)))

Exclusive(trades) ==
    \A i, j \in DOMAIN trades :
        (i # j /\ trades[i].result_image # NoPath)
            => trades[i].result_image # trades[j].result_image

\* C1: no two emitted trade records reference the same result, neither in
\* the list being built nor in the returned list.
C1_Exclusivity ==
    \A r \in Runs : Exclusive(matched_trades[r]) /\ Exclusive(returned[r])

\* a finished run returned a matched record and a signal-only record whose
\* signal also reaches the threshold against the consumed result
C1_Witness ==
    \E r \in Runs :
        /\ Done(r)
        /\ \E i, j \in DOMAIN returned[r] :
              /\ IsMatched(returned[r][i])
              /\ returned[r][j].signal_image # NoPath
              /\ returned[r][j].result_image = NoPath
              /\ RLe(Threshold(r),
                     CalculateMatchScore(
                         processed_data[returned[r][j].signal_image].data,
                         processed_data[returned[r][i].result_image].data))

\* C2: a record without a recognized coin is referenced by no emitted trade
\* record, neither in a matched record nor standalone.
C2_NoCoinExcluded ==
    \A r \in Runs : \A t \in Range(returned[r]) :
        /\ t.signal_image # NoPath => HasCoin(processed_data[t.signal_image].data)
        /\ t.result_image # NoPath => HasCoin(processed_data[t.result_image].data)

MatchedPairs(r) == Cardinality(used_results[r])

UnmatchedSignals(r) ==
    Cardinality({p \in DOMAIN processed_data :
        /\ IsSignalAt(p)
        /\ HasCoin(processed_data[p].data)
        /\ ~\E t \in Range(matched_trades[r]) : IsMatched(t) /\ t.signal_image = p})

UnmatchedResults(r) ==
    Cardinality({p \in DOMAIN processed_data :
        /\ IsResultAt(p)
        /\ HasCoin(processed_data[p].data)
        /\ ResultIndex(p) \notin used_results[r]})

\* C3: the number of returned records is matched pairs + unmatched signals
\* with a coin + unconsumed results with a coin.
C3_CountInvariant ==
    \A r \in Runs :
        Done(r) => Len(returned[r]) =
                       MatchedPairs(r) + UnmatchedSignals(r) + UnmatchedResults(r)

RoiOrZero(t) == IF t.roi.k = "val" THEN t.roi.v ELSE 0

SortedByRoi(trades) ==
    \A i, j \in DOMAIN trades : i < j => RoiOrZero(trades[i]) >= RoiOrZero(trades[j])

\* C4: the returned list is ordered by roi descending with a missing roi
\* ordered as 0, and a record without roi is returned with its roi unset.
C4_SortedMissingAsZero ==
    \A r \in Runs :
        Done(r) =>
            /\ SortedByRoi(returned[r])
            /\ \A t \in Range(matched_trades[r]) :
                  t.roi = None => t \in Range(returned[r])

\* the pair of the direct call: same coin, timestamps at most one hour
\* apart, price ratio above 0.8
C5_Price == IF result_data.entry_price.k = "val"
            THEN result_data.entry_price.v ELSE result_data.exit_price.v

C5_Ratio == Rat(Min(signal_data.entry_price.v, C5_Price),
                Max(signal_data.entry_price.v, C5_Price))

C5_Pre ==
    /\ score_pc = "done"
    /\ signal_data.coin # <<>>
    /\ signal_data.coin = result_data.coin
    /\ signal_data.timestamp.k = "val"
    /\ result_data.timestamp.k = "val"
    /\ Abs(result_data.timestamp.v - signal_data.timestamp.v) <= 3600
    /\ signal_data.entry_price.k = "val"
    /\ result_data.entry_price.k = "val" \/ result_data.exit_price.k = "val"
    /\ RLt(Rat(4, 5), C5_Ratio)

\* C5 as stated: for such a pair the score is exactly 1.0.
C5_ScoreIsOne == C5_Pre => score_out = One

\* C5 amended: for such a pair the score is 0.8 + 0.2 * price ratio, which is
\* 1.0 exactly when the two prices are equal.
C5_ScoreIsRatio ==
    C5_Pre => /\ score_out = RAdd(Rat(4, 5), RMul(Rat(1, 5), C5_Ratio))
              /\ (score_out = One) <=> (signal_data.entry_price.v = C5_Price)

\* such a pair with a price ratio strictly between 0.8 and 1 and timestamps
\* exactly one hour apart
C5_Witness ==
    /\ C5_Pre
    /\ signal_data.entry_price.v # C5_Price
    /\ Abs(result_data.timestamp.v - signal_data.timestamp.v) = 3600

InUnit(x) == RLe(Zero, x) /\ RLe(x, One)

\* C6: every score returned by _calculate_match_score and every
\* match_confidence of an emitted record lies in [0,1].
C6_ScoreInUnitInterval ==
    /\ score_pc = "done" => InUnit(score_out)
    /\ \A r \in Runs : \A t \in Range(matched_trades[r]) \cup Range(returned[r]) :
          InUnit(t.match_confidence)

\* a direct call returned a score strictly between 0 and 1 for two priced
\* records, and the run returned a matched record with that confidence
C6_Witness ==
    /\ score_pc = "done"
    /\ RLt(Zero, score_out) /\ RLt(score_out, One)
    /\ signal_data.entry_price.k = "val"
    /\ \E t \in Range(returned[1]) : IsMatched(t) /\ t.match_confidence = score_out

\* C7: two invocations on the same input, sequential or interleaved, return
\* identical lists.
C7_Idempotent ==
    (Done(1) /\ Done(2)) => returned[1] = returned[2]

\* both invocations finished, each having consumed a result and returned it
C7_Witness ==
    /\ Done(1) /\ Done(2)
    /\ used_results[1] # {}
    /\ \E t \in Range(returned[2]) : IsMatched(t)

ScenarioASignal == Data(EPIC, Val(123), Absent, Absent, StatusAbsent, Val(0))
ScenarioAResult == Data(EPIC, Absent, Val(6594), Val(5261), "win", Val(600))

\* the input is the signal and the result of Scenario A, in either order
IsScenarioA(sp, rp) ==
    /\ Len(processed_data) = 2
    /\ IsSignalAt(sp) /\ processed_data[sp].data = ScenarioASignal
    /\ IsResultAt(rp) /\ processed_data[rp].data = ScenarioAResult

ScenarioATrade(t, sp, rp, confidence) ==
    /\ t.coin = EPIC
    /\ t.entry_price = Val(123)
    /\ t.exit_price = Val(6594)
    /\ t.roi = Val(5261)
    /\ t.signal_image = sp
    /\ t.result_image = rp
    /\ t.match_confidence = confidence

\* C8 as stated: Scenario A returns one matched record with
\* match_confidence = 1.0.
C8_ScenarioAConfidenceOne ==
    \A r \in Runs : \A sp, rp \in 1..2 :
        (Done(r) /\ IsScenarioA(sp, rp)) =>
            /\ Len(returned[r]) = 1
            /\ ScenarioATrade(returned[r][1], sp, rp, One)

\* C8 amended: Scenario A returns one matched record with the signal's entry,
\* the result's exit and roi, and match_confidence = 0.8: the price factor
\* applies to entry against exit and earns nothing.
C8_ScenarioAConfidenceFourFifths ==
    \A r \in Runs : \A sp, rp \in 1..2 :
        (Done(r) /\ IsScenarioA(sp, rp)) =>
            /\ Len(returned[r]) = 1
            /\ ScenarioATrade(returned[r][1], sp, rp, Rat(4, 5))

\* a run on the input of Scenario A has finished
C8_Witness ==
    \E r \in Runs : \E sp, rp \in 1..2 : Done(r) /\ IsScenarioA(sp, rp)

\* the results consumed by the signals processed before the signal at p
ConsumedBefore(r, p) ==
    {t.result_image : t \in {x \in Range(matched_trades[r]) :
                                 IsMatched(x) /\ x.signal_image < p}}

\* no result left unconsumed when the signal at p is processed reaches the
\* threshold against it
NoQualifyingResult(r, p) ==
    \A q \in DOMAIN processed_data :
        (IsResultAt(q) /\ q \notin ConsumedBefore(r, p)) =>
            RLt(CalculateMatchScore(processed_data[p].data, processed_data[q].data),
                Threshold(r))

\* C9: a signal with a coin for which no unconsumed result reaches the
\* threshold is returned as exactly one signal-only record, with
\* match_confidence 0, no result reference and the signal's status or pending.
C9_SignalOnlyEmitted ==
    \A r \in Runs : \A p \in DOMAIN processed_data :
        (/\ Done(r)
         /\ IsSignalAt(p)
         /\ HasCoin(processed_data[p].data)
         /\ NoQualifyingResult(r, p)) =>
            /\ Cardinality({i \in DOMAIN returned[r] :
                               returned[r][i].signal_image = p}) = 1
            /\ \A t \in Range(returned[r]) :
                  t.signal_image = p =>
                      /\ t.match_confidence = Zero
                      /\ t.result_image = NoPath
                      /\ t.status = (IF processed_data[p].data.status = StatusAbsent
                                     THEN "pending"
                                     ELSE processed_data[p].data.status)

\* C10: every result with a coin that no signal consumed is returned exactly
\* once, as a result-only record with match_confidence 0 and no signal
\* reference.
C10_ResultOnlyEmitted ==
    \A r \in Runs : \A q \in DOMAIN processed_data :
        (/\ Done(r)
         /\ IsResultAt(q)
         /\ HasCoin(processed_data[q].data)
         /\ ResultIndex(q) \notin used_results[r]) =>
            /\ Cardinality({i \in DOMAIN returned[r] :
                               returned[r][i].result_image = q}) = 1
            /\ \A t \in Range(returned[r]) :
                  t.result_image = q =>
                      t.match_confidence = Zero /\ t.signal_image = NoPath

Emitted(r) == Range(matched_trades[r]) \cup Range(returned[r])

C12_ReferencedAndNamed ==
    \A r \in Runs : \A t \in Emitted(r) :
        /\ t.signal_image # NoPath \/ t.result_image # NoPath
        /\ t.coin # <<>>

\* a finished run returned a result-only record and a signal-only record
\* while a result without a coin was left unconsumed
C12_Witness ==
    \E r \in Runs :
        /\ Done(r)
        /\ \E t \in Range(returned[r]) : t.signal_image = NoPath
        /\ \E t \in Range(returned[r]) : t.result_image = NoPath
        /\ \E q \in DOMAIN processed_data :
              /\ IsResultAt(q)
              /\ ~NoData(processed_data[q].data)
              /\ ~HasCoin(processed_data[q].data)
              /\ ResultIndex(q) \notin used_results[r]

\* C13: match_signals_to_results never takes its except branch for partial
\* input, and it returns the trade records it assembled for the usable
\* observations instead of dropping the batch.
C13_NeverDropsBatch ==
    \A r \in Runs :
        Done(r) => /\ ~raised[r]
                   /\ Range(returned[r]) = Range(matched_trades[r])

\* the score of the signal at path p against the result at path q
PairScore(p, q) ==
    CalculateMatchScore(processed_data[p].data, processed_data[q].data)

\* C15: the result consumed by a signal has the top score among the results
\* unconsumed at that point, every such result earlier in the list scoring
\* strictly less: among equal top scores the first in list order is consumed.
C15_FirstOfEqualsWins ==
    \A r \in Runs : \A t \in Range(matched_trades[r]) :
        IsMatched(t) =>
            \A q \in DOMAIN processed_data :
                (IsResultAt(q) /\ q \notin ConsumedBefore(r, t.signal_image)) =>
                    /\ q < t.result_image =>
                           RLt(PairScore(t.signal_image, q), t.match_confidence)
                    /\ q > t.result_image =>
                           RLe(PairScore(t.signal_image, q), t.match_confidence)

\* a finished run matched a signal to a result while a later result, never
\* consumed, has the same score against that signal
C15_Witness ==
    \E r \in Runs :
        /\ Done(r)
        /\ \E t \in Range(returned[r]) :
              /\ IsMatched(t)
              /\ \E q \in DOMAIN processed_data :
                    /\ IsResultAt(q)
                    /\ q > t.result_image
                    /\ ResultIndex(q) \notin used_results[r]
                    /\ PairScore(t.signal_image, q) = t.match_confidence

\* the data each factor needs, read off the pair of the direct call
HasTime(d) == d.timestamp.k \in {"val", "bad"}
SignalHasPrice == signal_data.entry_price.k = "val"
ResultHasPrice ==
    result_data.entry_price.k = "val" \/ result_data.exit_price.k = "val"
BothCoins == signal_data.coin # <<>> /\ result_data.coin # <<>>
BothTimes == HasTime(signal_data) /\ HasTime(result_data)
BothPrices == SignalHasPrice /\ ResultHasPrice

WithoutTime(d) == [d EXCEPT !.timestamp = None]
WithoutPrice(d) == [d EXCEPT !.entry_price = None, !.exit_price = None]

\* C18: a factor whose data is absent on either side is left out of the
\* earned sum and of the normalizing maximum: identical coins with no
\* applicable timestamps and prices score 1.0, and a timestamp or a price
\* present on one side only leaves the score what it is without it.
C18_AbsentFactorSkipped ==
    score_pc = "done" =>
        /\ (BothCoins /\ signal_data.coin = result_data.coin
              /\ ~BothTimes /\ ~BothPrices) => score_out = One
        /\ ~BothTimes =>
              score_out = CalculateMatchScore(WithoutTime(signal_data),
                                              WithoutTime(result_data))
        /\ ~BothPrices =>
              score_out = CalculateMatchScore(WithoutPrice(signal_data),
                                              WithoutPrice(result_data))

\* the direct call returned for a pair of identical coins with both prices
\* and a timestamp on the signal only
C18_Witness ==
    /\ score_pc = "done"
    /\ BothCoins /\ signal_data.coin = result_data.coin
    /\ BothPrices
    /\ HasTime(signal_data) /\ ~HasTime(result_data)
    /\ RLt(Zero, score_out)

\* C19: _calculate_match_score returns 0 when no factor is applicable: no
\* coin on one side, no timestamp on one side and no price on one side.
C19_ZeroWhenNothingApplies ==
    (score_pc = "done" /\ ~BothCoins /\ ~BothTimes /\ ~BothPrices) =>
        score_out = Zero

\* the direct call returned for a pair with no applicable factor although
\* the signal has a coin, a timestamp and a price
C19_Witness ==
    /\ score_pc = "done"
    /\ ~BothCoins /\ ~BothTimes /\ ~BothPrices
    /\ signal_data.coin # <<>> /\ HasTime(signal_data) /\ SignalHasPrice

\* the pair of the direct call has two readable timestamps and no other
\* applicable factor, so that the score is the earned temporal weight
\* over 0.2
C20_Pre ==
    /\ score_pc = "done"
    /\ signal_data.timestamp.k = "val" /\ result_data.timestamp.k = "val"
    /\ ~BothCoins /\ ~BothPrices

C20_Diff == Abs(result_data.timestamp.v - signal_data.timestamp.v)

C20_Earned == RMul(score_out, Rat(1, 5))

\* C20 as stated: the temporal weight is 0.2 up to one hour, decays linearly
\* from 0.2 at one hour to 0 at 24 hours, and is 0 beyond.
C20_DecayFromFullWeight ==
    C20_Pre =>
        C20_Earned =
            IF C20_Diff <= 3600 THEN Rat(1, 5)
            ELSE IF C20_Diff <= 86400
            THEN RMul(Rat(1, 5), Rat(86400 - C20_Diff, 86400 - 3600))
            ELSE Zero

\* C20 amended: the temporal weight is 0.2 up to one hour, 0.2 * (1 - d/86400)
\* for a difference d of more than one hour and at most 24 hours, which is
\* below 0.2 * 23/24 and reaches 0 at 24 hours, and 0 beyond.
C20_DecayFromZeroSeconds ==
    C20_Pre =>
        /\ C20_Earned =
              IF C20_Diff <= 3600 THEN Rat(1, 5)
              ELSE IF C20_Diff <= 86400
              THEN RMul(Rat(1, 5), Rat(86400 - C20_Diff, 86400))
              ELSE Zero
        /\ C20_Diff > 3600 => RLt(C20_Earned, RMul(Rat(1, 5), Rat(23, 24)))
        /\ RLe(Zero, C20_Earned)

\* the direct call returned for timestamps one second more than one hour
\* apart
C20_Witness == C20_Pre /\ C20_Diff = 3601

\* the result's value when the result has one, else the signal's
Merged(result_entry, signal_entry) ==
    IF result_entry.k = "val" THEN result_entry ELSE Get(signal_entry)

MergedStatus(result_status, signal_status) ==
    IF result_status # StatusAbsent THEN result_status ELSE signal_status

\* C17: in a matched record match_confidence is the score of the pair, and
\* exit price, roi and status are the result's value when the result has
\* one and the signal's value when only the signal has one.
C17_MatchedRecordMerges ==
    \A r \in Runs : \A t \in Emitted(r) :
        IsMatched(t) =>
            LET sd == processed_data[t.signal_image].data
                rd == processed_data[t.result_image].data
            IN /\ t.match_confidence = PairScore(t.signal_image, t.result_image)
               /\ Get(t.exit_price) = Merged(rd.exit_price, sd.exit_price)
               /\ t.roi = Merged(rd.roi, sd.roi)
               /\ (rd.status # StatusAbsent \/ sd.status # StatusAbsent)
                     => t.status = MergedStatus(rd.status, sd.status)

\* the threshold an analyzer built with the argument arg is meant to use:
\* its threshold setting, or the default 0.8 without one
ThresholdSetting(arg) ==
    IF HasThreshold(arg) THEN arg.auto_match_threshold
    ELSE DefaultConfig.auto_match_threshold

\* C14: two analyzers whose configurations agree on auto_match_threshold,
\* an analyzer built without a threshold setting counting as 0.8, return
\* identical lists on the same input whatever their other keys are.
C14_OnlyThresholdMatters ==
    (Done(1) /\ Done(2)
        /\ ThresholdSetting(config_arg[1]) = ThresholdSetting(config_arg[2]))
            => returned[1] = returned[2]

IsSignalOnly(t) == t.signal_image # NoPath /\ t.result_image = NoPath

\* the results not yet consumed when the signal at path p is processed
Unconsumed(r, p) ==
    {q \in DOMAIN processed_data : IsResultAt(q) /\ q \notin ConsumedBefore(r, p)}

\* C16 as stated: a matched record has a score that meets or exceeds the
\* threshold, and a signal is left unmatched only if every unconsumed result
\* scores below the threshold: a score equal to the threshold qualifies.
C16_ThresholdGate ==
    \A r \in Runs : HasThreshold(config[r]) =>
        \A t \in Range(matched_trades[r]) :
            /\ IsMatched(t) =>
                  /\ t.match_confidence = PairScore(t.signal_image, t.result_image)
                  /\ RLe(Threshold(r), t.match_confidence)
            /\ IsSignalOnly(t) =>
                  \A q \in Unconsumed(r, t.signal_image) :
                      RLt(PairScore(t.signal_image, q), Threshold(r))

\* C16 amended: a matched record has a score above 0 that meets or exceeds
\* the threshold, and a signal is left unmatched only if every unconsumed
\* result scores below the threshold or scores 0: a score equal to the
\* threshold qualifies unless it is 0.
C16_ThresholdGateAboveZero ==
    \A r \in Runs : HasThreshold(config[r]) =>
        \A t \in Range(matched_trades[r]) :
            /\ IsMatched(t) =>
                  /\ t.match_confidence = PairScore(t.signal_image, t.result_image)
                  /\ RLe(Threshold(r), t.match_confidence)
                  /\ RLt(Zero, t.match_confidence)
            /\ IsSignalOnly(t) =>
                  \A q \in Unconsumed(r, t.signal_image) :
                      \/ RLt(PairScore(t.signal_image, q), Threshold(r))
                      \/ PairScore(t.signal_image, q) = Zero

\* one analyzer matched a pair whose score equals its threshold, and the
\* other, with a higher threshold, left the signal unmatched next to a
\* result whose score is above 0 and below its threshold
C16_Witness ==
    /\ \E r \in Runs : \E t \in Range(matched_trades[r]) :
          /\ HasThreshold(config[r])
          /\ IsMatched(t)
          /\ t.match_confidence = Threshold(r)
    /\ \E r \in Runs : \E t \in Range(matched_trades[r]) :
          /\ HasThreshold(config[r])
          /\ IsSignalOnly(t)
          /\ \E q \in Unconsumed(r, t.signal_image) :
                /\ RLt(Zero, PairScore(t.signal_image, q))
                /\ RLt(PairScore(t.signal_image, q), Threshold(r))

\* what the price factor is expected to earn for the pair of the direct call
C21_Earned ==
    IF RLt(Rat(4, 5), C5_Ratio) THEN RMul(Rat(1, 5), C5_Ratio) ELSE Zero

\* C21: with a price on both sides the price factor adds 0.2 to the
\* normalizing maximum and earns 0.2 * min/max when that ratio is strictly
\* above 0.8 and 0 otherwise; without a price on one side it adds nothing to
\* either. Read off pairs with no applicable timestamps.
C21_PriceFactor ==
    (score_pc = "done" /\ ~BothTimes) =>
        /\ (BothPrices /\ ~BothCoins) =>
              score_out = RDiv(C21_Earned, Rat(1, 5))
        /\ (BothPrices /\ BothCoins /\ signal_data.coin = result_data.coin) =>
              score_out = RDiv(RAdd(Rat(3, 5), C21_Earned), Rat(4, 5))
        /\ (~BothPrices /\ BothCoins /\ signal_data.coin = result_data.coin) =>
              score_out = One

\* the direct call returned for identical coins, no applicable timestamps
\* and prices in a ratio of exactly 0.8
C21_Witness ==
    /\ score_pc = "done"
    /\ ~BothTimes /\ BothPrices
    /\ BothCoins /\ signal_data.coin = result_data.coin
    /\ C5_Ratio = Rat(4, 5)
    /\ score_out = Rat(3, 4)

\* C24 as stated: win when green is at least 1.5 times red, loss when red is
\* at least 1.5 times green, neutral otherwise and when both counts are 0.
C24_AtLeastOneAndAHalf ==
    (color_pc = "done" /\ image_readable) =>
        color_out =
            IF green_pixels = 0 /\ red_pixels = 0 THEN "neutral"
            ELSE IF 2 * green_pixels >= 3 * red_pixels THEN "win"
            ELSE IF 2 * red_pixels >= 3 * green_pixels THEN "loss"
            ELSE "neutral"

\* C24 amended: win when green is more than 1.5 times red, loss when red is
\* more than 1.5 times green, neutral otherwise: a count of exactly 1.5
\* times the other, both counts 0 included, is not decisive.
C24_MoreThanOneAndAHalf ==
    (color_pc = "done" /\ image_readable) =>
        /\ (color_out = "win") <=> (2 * green_pixels > 3 * red_pixels)
        /\ (color_out = "loss") <=> (2 * red_pixels > 3 * green_pixels)
        /\ color_out \in {"win", "loss", "neutral"}
        /\ (2 * green_pixels = 3 * red_pixels \/ 2 * red_pixels = 3 * green_pixels)
              => color_out = "neutral"

\* the status was derived from a green count of exactly 1.5 times a red
\* count above 0
C24_Witness ==
    /\ color_pc = "done" /\ image_readable
    /\ red_pixels > 0
    /\ 2 * green_pixels = 3 * red_pixels

\* the word of region r as detect_coin_name compares it, and its confidence
WordOf(r) == Upper(text_regions[r].text)
ConfidenceOf(r) == text_regions[r].confidence

\* the registry symbols contained in the word of region r
ExactSymbols(r) ==
    {i \in DOMAIN KnownCoins : Contains(KnownCoins[i], WordOf(r))}

\* the similarity of the word of region r to registry symbol i
SimilarityTo(r, i) == SimilarityRatio(WordOf(r), KnownCoins[i])

NoSymbol == [coin |-> <<>>, confidence |-> Zero]

\* detect_coin_name returned for one region whose word holds no symbol
C22_Pre ==
    /\ coin_pc = "done"
    /\ Len(text_regions) = 1
    /\ Len(WordOf(1)) >= 2
    /\ ExactSymbols(1) = {}

\* C22 as stated: a fuzzy match is accepted from a similarity of 0.8 on, with
\* confidence region confidence * similarity, and rejected below; an exact
\* containment hit gets the region confidence.
C22_FuzzyFromFourFifths ==
    /\ C22_Pre =>
          IF \E i \in DOMAIN KnownCoins : RLe(Rat(4, 5), SimilarityTo(1, i))
          THEN \E i \in DOMAIN KnownCoins :
                  /\ RLe(Rat(4, 5), SimilarityTo(1, i))
                  /\ coin_out = [coin |-> KnownCoins[i],
                                  confidence |-> RMul(ConfidenceOf(1),
                                                      SimilarityTo(1, i))]
          ELSE coin_out = NoSymbol
    /\ (coin_pc = "done" /\ Len(text_regions) = 1 /\ ExactSymbols(1) # {}) =>
          /\ coin_out.confidence = ConfidenceOf(1)
          /\ \E i \in ExactSymbols(1) : coin_out.coin = KnownCoins[i]

\* C22 amended: a fuzzy match is accepted only for a similarity strictly
\* above 0.8, with confidence region confidence * similarity, and rejected
\* at 0.8 and below; an exact containment hit gets the region confidence.
C22_FuzzyAboveFourFifths ==
    /\ C22_Pre =>
          IF \E i \in DOMAIN KnownCoins : RLt(Rat(4, 5), SimilarityTo(1, i))
          THEN \E i \in DOMAIN KnownCoins :
                  /\ RLt(Rat(4, 5), SimilarityTo(1, i))
                  /\ coin_out = [coin |-> KnownCoins[i],
                                  confidence |-> RMul(ConfidenceOf(1),
                                                      SimilarityTo(1, i))]
          ELSE coin_out = NoSymbol
    /\ (coin_pc = "done" /\ Len(text_regions) = 1 /\ ExactSymbols(1) # {}) =>
          /\ coin_out.confidence = ConfidenceOf(1)
          /\ \E i \in ExactSymbols(1) : coin_out.coin = KnownCoins[i]

\* detect_coin_name returned a symbol for a word that holds none, with a
\* confidence below that of the region
C22_Witness ==
    /\ C22_Pre
    /\ coin_out.coin # <<>>
    /\ RLt(coin_out.confidence, ConfidenceOf(1))

\* the candidates of a call: <<r, 1, i>> is the exact hit of registry symbol
\* i in region r, <<r, 2, i>> its fuzzy hit
Candidates ==
    {x \in (DOMAIN text_regions) \X {1, 2} \X (DOMAIN KnownCoins) :
        IF x[2] = 1 THEN x[3] \in ExactSymbols(x[1])
        ELSE /\ CoinPatternMatches(WordOf(x[1])) # <<>>
             /\ RLt(Rat(4, 5), SimilarityTo(x[1], x[3]))}

CandidateConfidence(x) ==
    IF x[2] = 1 THEN ConfidenceOf(x[1])
    ELSE RMul(ConfidenceOf(x[1]), SimilarityTo(x[1], x[3]))

\* x is evaluated before y: region order, exact hits before fuzzy hits
\* within a region, then registry order
EvaluatedBefore(x, y) ==
    \/ x[1] < y[1]
    \/ x[1] = y[1] /\ x[2] < y[2]
    \/ x[1] = y[1] /\ x[2] = y[2] /\ x[3] < y[3]

\* C23: detect_coin_name returns the candidate with the highest confidence,
\* among candidates of equal confidence the one evaluated first, and the
\* empty symbol with confidence 0 when there is no candidate.
C23_BestCandidateFirstOfEquals ==
    coin_pc = "done" =>
        IF Candidates = {} THEN coin_out = NoSymbol
        ELSE \E x \in Candidates :
                /\ coin_out = [coin |-> KnownCoins[x[3]],
                                confidence |-> CandidateConfidence(x)]
                /\ \A y \in Candidates :
                      /\ RLe(CandidateConfidence(y), CandidateConfidence(x))
                      /\ EvaluatedBefore(y, x) =>
                            RLt(CandidateConfidence(y), CandidateConfidence(x))

\* detect_coin_name returned while a later candidate of another symbol has
\* the confidence of the one returned
C23_Witness ==
    /\ coin_pc = "done"
    /\ \E x, y \in Candidates :
          /\ EvaluatedBefore(x, y)
          /\ KnownCoins[x[3]] # KnownCoins[y[3]]
          /\ coin_out.coin = KnownCoins[x[3]]
          /\ CandidateConfidence(x) = coin_out.confidence
          /\ CandidateConfidence(y) = coin_out.confidence

----------------------------------------------------------------------------
(* Differing coins under the default threshold *)

DifferingCoins(s, r) == HasCoin(s) /\ HasCoin(r) /\ s.coin # r.coin

\* C25: under the default threshold 0.8 the score of a signal and a result
\* whose coins are both recognized and differ is below 0.8, whatever their
\* timestamps and prices, and no matched record pairs such a signal and result.
C25_DifferingCoinsNeverPaired ==
    /\ (score_pc = "done" /\ DifferingCoins(signal_data, result_data)) =>
           RLt(score_out, DefaultConfig.auto_match_threshold)
    /\ \A r \in Runs : \A t \in Emitted(r) :
           (IsMatched(t) /\ Threshold(r) = DefaultConfig.auto_match_threshold) =>
               ~DifferingCoins(processed_data[t.signal_image].data,
                               processed_data[t.result_image].data)

\* similar differing coins (BTC and BCH), timestamps within the hour and equal
\* prices score 0.6, and the finished run emitted the two unpaired
C25_Witness ==
    /\ score_pc = "done"
    /\ DifferingCoins(signal_data, result_data)
    /\ BothTimes /\ BothPrices
    /\ score_out = Rat(3, 5)
    /\ Done(1)
    /\ \E t \in Range(matched_trades[1]) : IsSignalOnly(t)
    /\ \A t \in Range(matched_trades[1]) : ~IsMatched(t)

----------------------------------------------------------------------------
(* match_confidence and the references of a record *)

\* C26: whatever the threshold, zero and negative ones included, an emitted
\* record has a match_confidence above 0 exactly when it references both a
\* signal and a result, the confidence is then at least auto_match_threshold,
\* and a record with one reference has the confidence 0.
C26_ConfidenceTellsMatched ==
    \A r \in Runs : \A t \in Emitted(r) :
        /\ RLt(Zero, t.match_confidence) <=> IsMatched(t)
        /\ IsMatched(t) =>
               /\ HasThreshold(config[r])
               /\ RLe(Threshold(r), t.match_confidence)
        /\ ~IsMatched(t) => t.match_confidence = Zero

\* a run with a negative threshold returned a signal on its own although a
\* result with a coin, never consumed, scores 0 against it, and returned that
\* result on its own too
C26_Witness ==
    \E r \in Runs :
        /\ HasThreshold(config[r]) /\ RLt(Threshold(r), Zero)
        /\ Done(r)
        /\ \E t \in Range(returned[r]) :
              /\ IsSignalOnly(t)
              /\ \E q \in Unconsumed(r, t.signal_image) :
                    /\ HasCoin(processed_data[q].data)
                    /\ PairScore(t.signal_image, q) = Zero
        /\ \E u \in Range(returned[r]) : ~IsMatched(u) /\ ~IsSignalOnly(u)

----------------------------------------------------------------------------
(* Conservation of the observations *)

\* the number of records of trades that reference the signal at path p
SignalReferences(trades, p) ==
    Cardinality({i \in DOMAIN trades : trades[i].signal_image = p})

\* the number of records of trades that reference the result at path q
ResultReferences(trades, q) ==
    Cardinality({i \in DOMAIN trades : trades[i].result_image = q})

Conserved(trades) ==
    /\ \A p \in DOMAIN processed_data :
           (IsSignalAt(p) /\ HasCoin(processed_data[p].data)) =>
               SignalReferences(trades, p) = 1
    /\ \A q \in DOMAIN processed_data :
           (IsResultAt(q) /\ HasCoin(processed_data[q].data)) =>
               ResultReferences(trades, q) = 1
    /\ \A t \in Range(trades) :
           /\ t.signal_image # NoPath => IsSignalAt(t.signal_image)
           /\ t.result_image # NoPath => IsResultAt(t.result_image)

\* C27: every signal with a coin is referenced by exactly one returned record,
\* every result with a coin is referenced by exactly one returned record, and
\* a returned record references only observations of the input.
C27_Conservation == \A r \in Runs : Done(r) => Conserved(returned[r])

----------------------------------------------------------------------------
(* The greedy choice *)

\* C28: the result a matched signal consumes has the highest score among the
\* results unconsumed when that signal is processed: the record carries the
\* score of its pair, and no unconsumed result scores strictly higher.
C28_GreedyLocalOptimum ==
    \A r \in Runs : \A t \in Range(matched_trades[r]) :
        IsMatched(t) =>
            /\ t.match_confidence = PairScore(t.signal_image, t.result_image)
            /\ \A q \in Unconsumed(r, t.signal_image) :
                   RLe(PairScore(t.signal_image, q), t.match_confidence)

\* a finished run matched a signal to a result although an earlier result,
\* never consumed, reaches the threshold too with a strictly lower score
C28_Witness ==
    \E r \in Runs :
        /\ Done(r)
        /\ \E t \in Range(returned[r]) :
              /\ IsMatched(t)
              /\ \E q \in Unconsumed(r, t.signal_image) :
                    /\ q < t.result_image
                    /\ ResultIndex(q) \notin used_results[r]
                    /\ RLe(Threshold(r), PairScore(t.signal_image, q))
                    /\ RLt(PairScore(t.signal_image, q), t.match_confidence)

----------------------------------------------------------------------------
(* The assignment of a signal and the signals after it *)

\* the input cut after the signal at path p: the signals up to p and every
\* result
PrefixInput(p) ==
    SelectSeq(processed_data, LAMBDA d : d.type = "result" \/ d.path <= p)

\* used_results after the loop has processed the first k of signals
RECURSIVE UsedAfter(_, _, _, _)
UsedAfter(signals, results, cfg, k) ==
    IF k = 0 THEN {}
    ELSE LET used == UsedAfter(signals, results, cfg, k - 1)
             best == BestMatch(signals[k].data, results, used, cfg)
         IN IF SignalUsable(signals[k].data) /\ ~best.raised /\ best.match # 0
            THEN used \cup {best.match}
            ELSE used

\* what a run on the input pd finds for the signal at path p: the path of the
\* result (NoPath for none) and the score
AssignmentIn(pd, cfg, p) ==
    LET signals == Signals(pd)
        results == Results(pd)
        k == CHOOSE i \in DOMAIN signals : signals[i].path = p
        best == BestMatch(signals[k].data, results,
                          UsedAfter(signals, results, cfg, k - 1), cfg)
    IN [result_image |-> IF best.match = 0 THEN NoPath
                         ELSE results[best.match].path,
        match_confidence |-> best.score]

\* C29: the result, or the absence of a result, recorded for a signal is the
\* one a run finds on the input cut after that signal (the signals up to it
\* and all the results): the signals after it never change or revoke it, also
\* when one of them scores strictly higher against the same result.
C29_PrefixStable ==
    \A r \in Runs : \A t \in Range(matched_trades[r]) :
        t.signal_image # NoPath =>
            LET assigned == AssignmentIn(PrefixInput(t.signal_image), config[r],
                                         t.signal_image)
            IN /\ t.result_image = assigned.result_image
               /\ t.match_confidence = assigned.match_confidence

\* a finished run returned a signal matched to a result and a later signal on
\* its own that scores strictly higher against that result
C29_Witness ==
    \E r \in Runs :
        /\ Done(r)
        /\ \E t, u \in Range(returned[r]) :
              /\ IsMatched(t)
              /\ IsSignalOnly(u)
              /\ u.signal_image > t.signal_image
              /\ RLt(t.match_confidence,
                     PairScore(u.signal_image, t.result_image))

----------------------------------------------------------------------------
(* What a run writes *)

\* C30: no step of match_signals_to_results changes its input: the sequence
\* processed_data and every record in it stay as they were, in contents and
\* in order, and the configuration is not written either; a run writes only
\* its consumed set and its output list.
C30_InputUnchanged ==
    [][processed_data' = processed_data /\ config' = config]_vars

\* both runs are finished on an input of three records, a result was consumed
\* and the second run returned the records of the first
C30_Witness ==
    /\ \A r \in Runs : Done(r) /\ used_results[r] # {} /\ returned[r] # <<>>
    /\ returned[1] = returned[2]
    /\ Len(processed_data) >= 3
    /\ \E p \in DOMAIN processed_data : NoData(processed_data[p].data)

============================================================================
